---- MODULE Spec2Model ----
(***************************************************************************)
(* Orbit record service of orbits-pds: the Express handlers of             *)
(* src/src/server.ts (class OrbitsPDS, launchCustomServer) over the PDS    *)
(* `record` table, and the admin guard of src/src/auth.ts.                 *)
(*                                                                         *)
(* JavaScript values are tagged tuples: <<"undef">>, <<"str", s>>,         *)
(* <<"num", n>>, <<"nan">>, <<"obj", entries>>, where entries is the       *)
(* object's own properties in insertion order, each <<key, value>>.        *)
(***************************************************************************)
EXTENDS Integers, Sequences, FiniteSets, TLC

VARIABLES store, now, lexiconResolver, writes, req, res, pending, proc

vars == <<store, now, lexiconResolver, writes, req, res, pending, proc>>

(***************************************************************************)
(* Bounds of the model.                                                    *)
(***************************************************************************)
\* Date.now() ranges over 1..MaxClock.
MaxClock == 2
\* Creates and updates that may take effect in one run.
MaxWrites == 2
\* Headers one call of requireAdmin is given.
MaxHeaders == 2
\* Numeric limits a list request supplies range over -MaxLimit..MaxLimit.
MaxLimit == 55
\* Updates that may be between their select and their write at one time.
MaxPending == 2
\* Lexicon files the loader finds.
MaxFiles == 2
\* Termination signals the process receives.
MaxSignals == 2

(***************************************************************************)
(* JavaScript values.                                                      *)
(***************************************************************************)
Undef == <<"undef">>
NaN == <<"nan">>
Str(s) == <<"str", s>>
Num(n) == <<"num", n>>
Obj(entries) == <<"obj", entries>>
EmptyObj == Obj(<<>>)

IsObj(v) == v[1] = "obj"

\* ToBoolean: undefined, '', 0 and NaN are falsy; every object is truthy.
Truthy(v) == v # Undef /\ v # Str("") /\ v # Num(0) /\ v # NaN

\* a || b
Or(a, b) == IF Truthy(a) THEN a ELSE b

Keys(o) == {o[2][i][1] : i \in 1..Len(o[2])}

HasKey(o, k) == k \in Keys(o)

\* o[k]: the property's value, undefined when o has no such property.
Get(o, k) ==
  IF HasKey(o, k)
  THEN LET i == CHOOSE j \in 1..Len(o[2]) : o[2][j][1] = k IN o[2][i][2]
  ELSE Undef

\* o[k] = v: an existing property keeps its place, a new one goes last.
ObjSet(o, k, v) ==
  IF HasKey(o, k)
  THEN Obj([i \in 1..Len(o[2]) |-> IF o[2][i][1] = k THEN <<k, v>> ELSE o[2][i]])
  ELSE Obj(Append(o[2], <<k, v>>))

RECURSIVE SetAll(_, _)
SetAll(o, entries) ==
  IF entries = <<>> THEN o
  ELSE SetAll(ObjSet(o, Head(entries)[1], Head(entries)[2]), Tail(entries))

\* { ...a, ...b }
JsSpread(a, b) == SetAll(SetAll(EmptyObj, a[2]), b[2])

\* const { k, ...rest } = o
ObjOmit(o, k) == Obj(SelectSeq(o[2], LAMBDA e : e[1] # k))

\* Number(v) on the values the model draws.
ToNumber(v) ==
  CASE v[1] = "num" -> v
    [] v = Str("") -> Num(0)
    [] v = Str("1") -> Num(1)
    [] v = Str("2") -> Num(2)
    [] OTHER -> NaN

(***************************************************************************)
(* JSON.stringify / JSON.parse.  The text is the value in canonical form:  *)
(* properties in insertion order, those whose value is undefined left out. *)
(***************************************************************************)
RECURSIVE Canon(_)
Canon(v) ==
  IF IsObj(v)
  THEN LET kept == SelectSeq(v[2], LAMBDA e : e[2] # Undef)
       IN  Obj([i \in 1..Len(kept) |-> <<kept[i][1], Canon(kept[i][2])>>])
  ELSE v

JSONstringify(v) == <<"json", Canon(v)>>

JSONparse(text) == text[2]

(***************************************************************************)
(* src/src/auth.ts                                                         *)
(***************************************************************************)
\* Variant: header names looked up as they were sent.
ToLowerCaseMutAsSent(k) == k

\* k.toLowerCase() on the header names the model draws.
ToLowerCase(k) ==
  CASE k = "X-Orbits-Admin" -> "x-orbits-admin"
    [] k = "X-ORBITS-ADMIN" -> "x-orbits-admin"
    [] k = "Admin" -> "admin"
    [] OTHER -> k

\* Array.isArray(v) ? v[0] || '' : v || ''   (an array is <<"arr", items>>)
HeaderValue(v) ==
  IF v[1] = "arr"
  THEN (IF Len(v[2]) > 0 THEN Or(v[2][1], Str("")) ELSE Str(""))
  ELSE Or(v, Str(""))

\* The loop of requireAdmin: h[k.toLowerCase()] = value, in the order of hRaw.
RECURSIVE NormalizeHeaders(_, _)
NormalizeHeaders(h, hRaw) ==
  IF hRaw = <<>> THEN h
  ELSE NormalizeHeaders(ObjSet(h, ToLowerCase(Head(hRaw)[1]), HeaderValue(Head(hRaw)[2])),
                        Tail(hRaw))

AdminHeaderNames ==
  <<"x-orbits-admin", "x-admin-secret", "x-admin-password",
    "admin", "admin_password", "admin-password">>

\* Variant: the chain read from its far end, the last name winning.
RECURSIVE FirstTruthyMutLastTruthy(_, _, _)
FirstTruthyMutLastTruthy(h, names, i) ==
  IF i = Len(names) THEN Get(h, names[i])
  ELSE Or(FirstTruthyMutLastTruthy(h, names, i + 1), Get(h, names[i]))

\* h[n1] || h[n2] || ... over names[i..]
RECURSIVE FirstTruthy(_, _, _)
FirstTruthy(h, names, i) ==
  IF i = Len(names) THEN Get(h, names[i])
  ELSE Or(Get(h, names[i]), FirstTruthy(h, names, i + 1))

Candidate(headers) ==
  FirstTruthy(NormalizeHeaders(EmptyObj, headers), AdminHeaderNames, 1)

xrpcError(code, message) == [error |-> code, message |-> message]

\* A plain Error: it has no .error property.
PlainError(message) == [error |-> "undefined", message |-> message]

\* Variant: a guard that lets every request through.
requireAdminMutNoCheck(headers, adminPassword) == TRUE

\* TRUE when requireAdmin returns, FALSE when it throws AuthMissing.

requireAdmin(headers, adminPassword) ==
  LET candidate == Candidate(headers)
  IN  ~(~Truthy(candidate) \/ candidate # Str(adminPassword))

AuthMissing == xrpcError("AuthMissing", "Authentication Required")

(***************************************************************************)
(* Configuration and identifiers (src/src/server.ts).                      *)
(***************************************************************************)
ADMIN_PASSWORD == "admin123"

OrbitCollection == "org.chaoticharmonylabs.orbit.record"

\* `did:web:${process.env.PDS_HOSTNAME||'localhost'}`
ServiceDid == "did:web:localhost"

DefaultLimit == 50

\* new Date(t).toISOString(): one string per millisecond.
ToISOString(t) == Str("T" \o ToString(t))

\* AtUri.make(did, collection, rkey).toString()
AtUriMake(did, collection, rkey) == "at://" \o did \o "/" \o collection \o "/" \o rkey

\* The record key create derives from the clock.
Rkey(t) == ToString(t)

OrbitUri(t) == AtUriMake(ServiceDid, OrbitCollection, Rkey(t))

(***************************************************************************)
(* createCid: CID.create(1, raw.code, sha256(utf8(JSON.stringify(obj)))),  *)
(* with sha256 an injective symbolic function of the bytes.                *)
(***************************************************************************)
RawCode == 85

Sha256(bytes) == <<"sha2-256", bytes>>

\* Variant: a fingerprint salted with the number of writes so far.
createCidMutSalted(obj) ==
  [version |-> 1, code |-> RawCode, multihash |-> Sha256(<<JSONstringify(obj), writes>>)]

\* Variant: a fingerprint that ignores the content.
createCidMutConstant(obj) == [version |-> 1, code |-> RawCode, multihash |-> Sha256(<<"json", EmptyObj>>)]

createCid(obj) == [version |-> 1, code |-> RawCode, multihash |-> Sha256(JSONstringify(obj))]

\* cid.toString(): the base32 multibase text of the CID's bytes.
CidToString(cid) == <<"b", cid.version, cid.code, cid.multihash>>

(***************************************************************************)
(* The PDS `record` table, reached through kysely: a sequence of rows in   *)
(* insertion order, uri its primary key.                                   *)
(***************************************************************************)
Min(a, b) == IF a <= b THEN a ELSE b

\* .where('collection', '=', c)
WhereCollection(rows, c) == SelectSeq(rows, LAMBDA r : r.collection = c)

\* Variant: the uri filter left out.
WhereUriMutNoFilter(rows, uri) == rows

\* .where('uri', '=', uri)

WhereUri(rows, uri) == SelectSeq(rows, LAMBDA r : Str(r.uri) = uri)

\* Variant: one row too many.
LimitMutOffByOne(rows, n) == IF n < 0 THEN rows ELSE SubSeq(rows, 1, Min(n + 1, Len(rows)))

\* .limit(n): SQLite reads a negative LIMIT as no limit.

Limit(rows, n) == IF n < 0 THEN rows ELSE SubSeq(rows, 1, Min(n, Len(rows)))

\* Variant: a table without a key on uri.
InsertAllowedMutNoKey(rows, row) == TRUE

\* .insertInto('record').values(row): the primary key rejects a second row of a uri.
InsertAllowed(rows, row) == \A i \in 1..Len(rows) : rows[i].uri # row.uri

\* Variant: the insert replaces the table's rows by the new one.
InsertMutReplaces(rows, row) == <<row>>

\* Variant: the insert reports success and stores nothing.
InsertMutDropped(rows, row) == rows

\* .insertInto('record').values(row).execute() of an accepted row.
Insert(rows, row) == Append(rows, row)

\* Variant: the merged record inserted as a new row under a new uri.
UpdateWhereUriMutInsert(rows, uri, cid, json, indexedAt) ==
  Append(rows, [rows[1] EXCEPT !.uri = uri[2] \o "'", !.cid = cid, !.json = json,
                               !.indexedAt = indexedAt])

\* Variant: cid left out of .set(...).
UpdateWhereUriMutStaleCid(rows, uri, cid, json, indexedAt) ==
  [i \in 1..Len(rows) |->
     IF Str(rows[i].uri) = uri
     THEN [rows[i] EXCEPT !.json = json, !.indexedAt = indexedAt]
     ELSE rows[i]]

\* .updateTable('record').set({cid, json, indexedAt}).where('uri', '=', uri)
UpdateWhereUri(rows, uri, cid, json, indexedAt) ==
  [i \in 1..Len(rows) |->
     IF Str(rows[i].uri) = uri
     THEN [rows[i] EXCEPT !.cid = cid, !.json = json, !.indexedAt = indexedAt]
     ELSE rows[i]]

\* Messages of the errors the collaborator throws.
DbErrorMessage == "SQLITE_ERROR: database unavailable"

LockedErrorMessage == "SQLITE_BUSY: database is locked"

\* e.message of the failure a request meets: "read" and "write" name the
\* statement that fails, "locked" is a failure of the first statement with
\* another message.
FaultMessage(fault) ==
  IF fault = "locked" THEN LockedErrorMessage ELSE DbErrorMessage

UniqueErrorMessage == "SQLITE_CONSTRAINT: UNIQUE constraint failed: record.uri"

ValidationErrorMessage == "Record/name must not be longer than 64 characters"

\* e.message.includes('Authentication') on the messages the model draws.
IncludesAuthentication(message) == message = "Authentication Required"

(***************************************************************************)
(* Responses: res.status(code).json(body).                                 *)
(***************************************************************************)
\* res.json(body)
Json(body) == [status |-> 200, thrown |-> "none", body |-> body]

\* return res.status(404).json({ error: 'not found' })
NotFound == [status |-> 404, thrown |-> "none", body |-> <<"error", "not found">>]

\* catch of orbit.list: every error is a 500 carrying e.message.
CatchList(e) == [status |-> 500, thrown |-> e.error, body |-> <<"error", e.message>>]

\* catch of orbit.get
CatchGet(e) ==
  [status |-> IF e.error = "InvalidRequest" THEN 400 ELSE 500,
   thrown |-> e.error, body |-> <<"error", e.message>>]

\* catch of orbit.create and orbit.update
CatchMutating(e) ==
  [status |-> IF e.error = "InvalidRequest" THEN 400
              ELSE IF IncludesAuthentication(e.message) THEN 403 ELSE 500,
   thrown |-> e.error, body |-> <<"error", e.message>>]

\* Variant: a value cut down to the fields the record type declares.
OrbitResponseMutKnownFields(r) == <<r.uri, r.cid, ObjOmit(JSONparse(r.json), "tag")>>

\* r => ({ uri: r.uri, cid: r.cid, value: JSON.parse(r.json) })
OrbitResponse(r) == <<r.uri, r.cid, JSONparse(r.json)>>

(***************************************************************************)
(* The handlers: each gives the table and the response it leaves.          *)
(***************************************************************************)
\* const limit = Number(req.body.limit) || 50
ListLimit(body) ==
  LET n == Or(ToNumber(Get(body, "limit")), Num(DefaultLimit)) IN n[2]

ListHandler(rows, body, fault) ==
  IF fault # "none"
  THEN [store |-> rows, res |-> CatchList(PlainError(FaultMessage(fault)))]
  ELSE LET records == Limit(WhereCollection(rows, OrbitCollection), ListLimit(body))
       IN  [store |-> rows,
            res |-> Json(<<"orbits", [i \in 1..Len(records) |-> OrbitResponse(records[i])]>>)]

GetHandler(rows, body, fault) ==
  LET uri == Get(body, "uri") IN
  IF ~Truthy(uri)
  THEN [store |-> rows, res |-> CatchGet(xrpcError("InvalidRequest", "uri required"))]
  ELSE IF fault # "none"
  THEN [store |-> rows, res |-> CatchGet(PlainError(FaultMessage(fault)))]
  ELSE LET found == WhereCollection(WhereUri(rows, uri), OrbitCollection) IN
       IF found = <<>>
       THEN [store |-> rows, res |-> NotFound]
       ELSE [store |-> rows, res |-> Json(<<"orbit", OrbitResponse(found[1])>>)]

\* Variant: description and feeds taken as given, without their defaults.
CreateRecordMutNoDefaults(input, t) ==
  Obj(<< <<"$type", Str(OrbitCollection)>>,
         <<"name", Get(input, "name")>>,
         <<"description", Get(input, "description")>>,
         <<"createdAt", ToISOString(t)>>,
         <<"feeds", Get(input, "feeds")>> >>)

\* The record create builds from its input.
CreateRecord(input, t) ==
  Obj(<< <<"$type", Str(OrbitCollection)>>,
         <<"name", Get(input, "name")>>,
         <<"description", Or(Get(input, "description"), Str(""))>>,
         <<"createdAt", ToISOString(t)>>,
         <<"feeds", Or(Get(input, "feeds"), EmptyObj)>> >>)

\* Variant: only an absent name is refused, an empty one passes.
NameMissingMutUndefinedOnly(input) == Get(input, "name") = Undef

\* if (!input.name)

NameMissing(input) == ~Truthy(Get(input, "name"))

\* Variant: the row inserted before the record is checked against the schema.
CreateHandlerMutInsertThenValidate(rows, t, lexicons, headers, input, fault, valid) ==
  IF ~requireAdmin(headers, ADMIN_PASSWORD)
  THEN [store |-> rows, res |-> CatchMutating(AuthMissing)]
  ELSE IF NameMissing(input)
  THEN [store |-> rows, res |-> CatchMutating(xrpcError("InvalidRequest", "name required"))]
  ELSE LET record == CreateRecord(input, t)
           cid == createCid(record)
           rkey == Rkey(t)
           uri == AtUriMake(ServiceDid, OrbitCollection, rkey)
           row == [uri |-> uri, cid |-> CidToString(cid), did |-> ServiceDid,
                   collection |-> OrbitCollection, rkey |-> rkey,
                   json |-> JSONstringify(record), indexedAt |-> ToISOString(t)]
       IN
  IF fault # "none"
  THEN [store |-> rows, res |-> CatchMutating(PlainError(FaultMessage(fault)))]
  ELSE IF ~InsertAllowed(rows, row)
  THEN [store |-> rows, res |-> CatchMutating(PlainError(UniqueErrorMessage))]
  ELSE IF lexicons # "null" /\ ~valid
  THEN [store |-> Insert(rows, row),
        res |-> CatchMutating(PlainError(ValidationErrorMessage))]
  ELSE [store |-> Insert(rows, row), res |-> Json(<<"ref", uri, CidToString(cid)>>)]

CreateHandler(rows, t, lexicons, headers, input, fault, valid) ==
  IF ~requireAdmin(headers, ADMIN_PASSWORD)
  THEN [store |-> rows, res |-> CatchMutating(AuthMissing)]
  ELSE IF NameMissing(input)
  THEN [store |-> rows, res |-> CatchMutating(xrpcError("InvalidRequest", "name required"))]
  ELSE LET record == CreateRecord(input, t) IN
  IF lexicons # "null" /\ ~valid
  THEN [store |-> rows, res |-> CatchMutating(PlainError(ValidationErrorMessage))]
  ELSE LET cid == createCid(record)
           rkey == Rkey(t)
           uri == AtUriMake(ServiceDid, OrbitCollection, rkey)
           row == [uri |-> uri, cid |-> CidToString(cid), did |-> ServiceDid,
                   collection |-> OrbitCollection, rkey |-> rkey,
                   json |-> JSONstringify(record), indexedAt |-> ToISOString(t)]
       IN
  IF fault # "none"
  THEN [store |-> rows, res |-> CatchMutating(PlainError(FaultMessage(fault)))]
  ELSE IF ~InsertAllowed(rows, row)
  THEN [store |-> rows, res |-> CatchMutating(PlainError(UniqueErrorMessage))]
  ELSE [store |-> Insert(rows, row), res |-> Json(<<"ref", uri, CidToString(cid)>>)]

\* Variant: { ...base, updatedAt: ..., ...updates }, the client's fields last.
MergeUpdateMutClientWins(base, updates, t) ==
  JsSpread(ObjSet(base, "updatedAt", ToISOString(t)), updates)

\* Variant: the supplied fields replace the record instead of merging into it.
MergeUpdateMutReplace(base, updates, t) == ObjSet(updates, "updatedAt", ToISOString(t))

\* { ...base, ...updates, updatedAt: new Date().toISOString() }
MergeUpdate(base, updates, t) == ObjSet(JsSpread(base, updates), "updatedAt", ToISOString(t))

UpdateHandler(rows, t, headers, body, fault) ==
  IF ~requireAdmin(headers, ADMIN_PASSWORD)
  THEN [store |-> rows, res |-> CatchMutating(AuthMissing)]
  ELSE LET uri == Get(body, "uri")
           updates == ObjOmit(body, "uri")
       IN
  IF ~Truthy(uri)
  THEN [store |-> rows, res |-> CatchMutating(xrpcError("InvalidRequest", "uri required"))]
  ELSE IF fault \in {"read", "locked"}
  THEN [store |-> rows, res |-> CatchMutating(PlainError(FaultMessage(fault)))]
  ELSE LET found == WhereUri(rows, uri) IN
  IF found = <<>>
  THEN [store |-> rows, res |-> NotFound]
  ELSE LET base == JSONparse(found[1].json)
           record == MergeUpdate(base, updates, t)
           cid == createCid(record)
       IN
  IF fault = "write"
  THEN [store |-> rows, res |-> CatchMutating(PlainError(FaultMessage(fault)))]
  ELSE [store |-> UpdateWhereUri(rows, uri, CidToString(cid), JSONstringify(record), ToISOString(t)),
        res |-> Json(<<"ref", uri[2], CidToString(cid)>>)]

\* Variant: a session, the credential waived once the table holds a record.
ServeMutSessionAfterWrite(rows, t, lexicons, r) ==
  LET headers == IF rows # <<>> THEN << <<"x-orbits-admin", Str(ADMIN_PASSWORD)>> >>
                 ELSE r.headers
  IN  CASE r.op = "list" -> ListHandler(rows, r.body, r.fault)
        [] r.op = "get" -> GetHandler(rows, r.body, r.fault)
        [] r.op = "create" ->
             CreateHandler(rows, t, lexicons, headers, r.body, r.fault, r.valid)
        [] r.op = "update" -> UpdateHandler(rows, t, headers, r.body, r.fault)

\* Variant: the read routes guarded like the mutating ones.
ServeMutGuardedReads(rows, t, lexicons, r) ==
  IF r.op \in {"list", "get"} /\ ~requireAdmin(r.headers, ADMIN_PASSWORD)
  THEN [store |-> rows, res |-> CatchMutating(AuthMissing)]
  ELSE CASE r.op = "list" -> ListHandler(rows, r.body, r.fault)
         [] r.op = "get" -> GetHandler(rows, r.body, r.fault)
         [] r.op = "create" ->
              CreateHandler(rows, t, lexicons, r.headers, r.body, r.fault, r.valid)
         [] r.op = "update" -> UpdateHandler(rows, t, r.headers, r.body, r.fault)

\* The routes of launchCustomServer: app.post(path, handler), by operation.
\* Only create and update hand req.headers to their handler.
Serve(rows, t, lexicons, r) ==
  CASE r.op = "list" -> ListHandler(rows, r.body, r.fault)
    [] r.op = "get" -> GetHandler(rows, r.body, r.fault)
    [] r.op = "create" ->
         CreateHandler(rows, t, lexicons, r.headers, r.body, r.fault, r.valid)
    [] r.op = "update" -> UpdateHandler(rows, t, r.headers, r.body, r.fault)

(***************************************************************************)
(* Requests the clients send.                                              *)
(***************************************************************************)
NoHeaders == <<>>

GoodHeaders == << <<"x-orbits-admin", Str(ADMIN_PASSWORD)>> >>

BadHeaders == << <<"x-orbits-admin", Str("letmein")>> >>

UnauthorizedHeaders == {NoHeaders, BadHeaders}

PhotoFeeds == Obj(<< <<"photo", Str("at://x")>> >>)

VideoFeeds == Obj(<< <<"video", Str("at://v")>> >>)

Request(op, headers, body, fault, valid) ==
  [op |-> op, headers |-> headers, body |-> body, fault |-> fault, valid |-> valid]

\* Create inputs: accepted ones, and ones without a usable name.
NamedInputs ==
  { Obj(<< <<"name", Str("A")>> >>),
    Obj(<< <<"name", Str("B")>>, <<"description", Str("d")>>, <<"feeds", PhotoFeeds>>,
           <<"updatedAt", Str("X")>> >>) }

UnnamedInputs ==
  { EmptyObj, Obj(<< <<"name", Str("")>>, <<"description", Str("d")>> >>) }

CreateRequests ==
  {Request("create", GoodHeaders, b, "none", TRUE) : b \in NamedInputs \cup UnnamedInputs}
  \cup {Request("create", GoodHeaders, Obj(<< <<"name", Str("A")>> >>), "write", TRUE),
        Request("create", GoodHeaders, Obj(<< <<"name", Str("A")>> >>), "none", FALSE),
        Request("create", GoodHeaders, EmptyObj, "write", FALSE)}
  \cup {Request("create", h, b, "none", TRUE) :
          h \in UnauthorizedHeaders, b \in {EmptyObj, Obj(<< <<"name", Str("A")>> >>)}}
  \cup {Request("create", BadHeaders, Obj(<< <<"name", Str("A")>> >>), "write", TRUE)}

\* The uris a request may name: those create can mint, and one it never mints.
MissingUri == AtUriMake(ServiceDid, OrbitCollection, "0")

MintedUris == {OrbitUri(t) : t \in 1..MaxClock}

\* A record of another collection, as the PDS keeps them in the same table.
ForeignCollection == "app.bsky.feed.post"

ForeignUri == AtUriMake(ServiceDid, ForeignCollection, "9")

ForeignRecord == Obj(<< <<"$type", Str(ForeignCollection)>>, <<"text", Str("hello")>> >>)

ForeignRow ==
  [uri |-> ForeignUri, cid |-> CidToString(createCid(ForeignRecord)), did |-> ServiceDid,
   collection |-> ForeignCollection, rkey |-> "9",
   json |-> JSONstringify(ForeignRecord), indexedAt |-> ToISOString(0)]

UpdateFields ==
  { << <<"name", Str("B")>> >>,
    << <<"description", Str("e")>>, <<"feeds", VideoFeeds>> >>,
    << <<"name", Str("")>>, <<"createdAt", Str("X")>>, <<"updatedAt", Str("X")>>,
       <<"tag", Str("t")>> >> }

\* { uri, ...fields }
UpdateBody(uri, fields) == Obj(<< <<"uri", Str(uri)>> >> \o fields)

NameB == << <<"name", Str("B")>> >>

UpdateRequests ==
  {Request("update", GoodHeaders, UpdateBody(u, f), "none", TRUE) :
     u \in MintedUris, f \in UpdateFields}
  \cup {Request("update", GoodHeaders, UpdateBody(MissingUri, NameB), "none", TRUE),
        Request("update", GoodHeaders, Obj(NameB), "none", TRUE)}
  \cup {Request("update", GoodHeaders, UpdateBody(OrbitUri(1), NameB), fault, TRUE) :
          fault \in {"read", "write"}}
  \cup {Request("update", h, b, "none", TRUE) :
          h \in UnauthorizedHeaders,
          b \in {Obj(NameB), UpdateBody(MissingUri, NameB), UpdateBody(OrbitUri(1), NameB)}}
  \cup {Request("update", BadHeaders, UpdateBody(OrbitUri(1), NameB), "read", TRUE),
        Request("update", GoodHeaders, Obj(NameB), "read", TRUE),
        Request("update", GoodHeaders, UpdateBody(ForeignUri, NameB), "none", TRUE)}

GetBody(uri) == Obj(<< <<"uri", Str(uri)>> >>)

GetRequests ==
  {Request("get", NoHeaders, GetBody(u), "none", TRUE) :
     u \in MintedUris \cup {MissingUri, ForeignUri}}
  \cup {Request("get", NoHeaders, EmptyObj, "none", TRUE),
        Request("get", NoHeaders, GetBody(OrbitUri(1)), "read", TRUE)}
  \cup {Request("get", h, GetBody(OrbitUri(1)), "none", TRUE) : h \in {GoodHeaders, BadHeaders}}

LimitValues == {Num(-1), Num(0), Num(1), Num(2)}

ListBody(limit) == Obj(<< <<"limit", limit>> >>)

ListRequests ==
  {Request("list", NoHeaders, ListBody(n), "none", TRUE) : n \in LimitValues}
  \cup {Request("list", NoHeaders, EmptyObj, "none", TRUE),
        Request("list", NoHeaders, EmptyObj, "read", TRUE),
        Request("list", NoHeaders, EmptyObj, "locked", TRUE)}
  \cup {Request("list", h, EmptyObj, "none", TRUE) : h \in {GoodHeaders, BadHeaders}}

(***************************************************************************)
(* The process: `new OrbitsPDS()` loads the lexicon files, start() creates *)
(* and starts the PDS and only then opens the routes and registers the     *)
(* signal handlers.  proc.files is the loader's directory listing,         *)
(* proc.next the file it reads next, proc.lexicons the documents it has    *)
(* read, proc.stopping the shutdown calls waiting for pds.destroy(),       *)
(* proc.destroys the calls of pds.destroy() so far.                        *)
(***************************************************************************)
Process(phase, files, next, lexicons) ==
  [phase |-> phase, files |-> files, next |-> next, lexicons |-> lexicons,
   stopping |-> 0, destroys |-> 0, exit |-> "running"]

\* After app.listen(3100): the loader's locals are gone.
Listening == Process("listening", <<>>, 1, <<>>)

\* Variant: routes that answer before the constructor has finished.
ServingMutBeforeLoad(p) == p.exit = "running"

\* The routes exist from app.listen until the process exits.
Serving(p) == p.phase = "listening" /\ p.exit = "running"

(***************************************************************************)
(* The state machine.                                                      *)
(***************************************************************************)
Init ==
  /\ store = <<>>
  /\ now = 1
  /\ lexiconResolver \in {"null", "loaded"}
  /\ writes = 0
  /\ req = Request("none", NoHeaders, EmptyObj, "none", TRUE)
  /\ res = [status |-> 0, thrown |-> "none", body |-> <<"none">>]
  /\ pending = {}
  /\ proc = Listening

\* The wall clock advances between requests.
Tick ==
  /\ now < MaxClock
  /\ now' = now + 1
  /\ UNCHANGED <<store, lexiconResolver, writes, req, res, pending, proc>>

\* A handler has run: it leaves the table and the response of `out`.
Handled(r, out) ==
  /\ Serving(proc)
  /\ out.store # store => writes < MaxWrites
  /\ writes' = IF out.store # store THEN writes + 1 ELSE writes
  /\ req' = r
  /\ store' = out.store
  /\ res' = out.res
  /\ UNCHANGED <<now, lexiconResolver, pending, proc>>

OrbitList ==
  \E r \in ListRequests : Handled(r, Serve(store, now, lexiconResolver, r))

OrbitGet ==
  \E r \in GetRequests : Handled(r, Serve(store, now, lexiconResolver, r))

OrbitCreate ==
  \E r \in CreateRequests : Handled(r, Serve(store, now, lexiconResolver, r))

OrbitUpdate ==
  \E r \in UpdateRequests : Handled(r, Serve(store, now, lexiconResolver, r))

Next == Tick \/ OrbitList \/ OrbitGet \/ OrbitCreate \/ OrbitUpdate

Spec == Init /\ [][Next]_vars

(***************************************************************************)
(* The same service over a table in which the PDS already keeps a record   *)
(* of another collection.                                                  *)
(***************************************************************************)
ForeignInit ==
  /\ store = <<ForeignRow>>
  /\ now = 1
  /\ lexiconResolver \in {"null", "loaded"}
  /\ writes = 0
  /\ req = Request("none", NoHeaders, EmptyObj, "none", TRUE)
  /\ res = [status |-> 0, thrown |-> "none", body |-> <<"none">>]
  /\ pending = {}
  /\ proc = Listening

ForeignSpec == ForeignInit /\ [][Next]_vars

(***************************************************************************)
(* The update route as Node runs it: the handler gives up control at each  *)
(* `await`, so other requests run between its select (server.ts:553-557)   *)
(* and its update statement (565-569).  pending holds the updates that     *)
(* have read their record and not yet written: the request, the json they  *)
(* read and the time of the merge.                                         *)
(***************************************************************************)
\* The table of the race: one orbit, created before the updates arrive.
RaceInit ==
  /\ store = CreateHandler(<<>>, 1, "null", GoodHeaders,
                           Obj(<< <<"name", Str("A")>>, <<"description", Str("d")>>,
                                  <<"feeds", PhotoFeeds>> >>), "none", TRUE).store
  /\ now = 1
  /\ lexiconResolver \in {"null", "loaded"}
  /\ writes = 0
  /\ req = Request("none", NoHeaders, EmptyObj, "none", TRUE)
  /\ res = [status |-> 0, thrown |-> "none", body |-> <<"none">>]
  /\ pending = {}
  /\ proc = Listening

\* The handler gets as far as its update statement: authorized, a uri, a row.
ReachesWrite(rows, r) ==
  /\ requireAdmin(r.headers, ADMIN_PASSWORD)
  /\ Truthy(Get(r.body, "uri"))
  /\ r.fault \notin {"read", "locked"}
  /\ WhereUri(rows, Get(r.body, "uri")) # <<>>

\* The updates that race: two of the same orbit with no field in common,
\* one whose write fails, one refused and one of a uri nobody holds.
RaceRequests ==
  {Request("update", GoodHeaders, UpdateBody(OrbitUri(1), f), "none", TRUE) :
     f \in {NameB, << <<"description", Str("e")>>, <<"feeds", VideoFeeds>> >>}}
  \cup {Request("update", GoodHeaders, UpdateBody(OrbitUri(1), NameB), "write", TRUE),
        Request("update", BadHeaders, UpdateBody(OrbitUri(1), NameB), "none", TRUE),
        Request("update", GoodHeaders, UpdateBody(MissingUri, NameB), "none", TRUE)}

\* Lines 548-562: up to the merge.  A handler that answers before its write
\* runs to its end in this step.
UpdateSelect ==
  \E r \in RaceRequests :
    IF ReachesWrite(store, r)
    THEN /\ Serving(proc)
         /\ Cardinality(pending) < MaxPending
         /\ pending' = pending \cup
                          {[req |-> r, existing |-> WhereUri(store, Get(r.body, "uri"))[1].json,
                            t |-> now]}
         /\ UNCHANGED <<store, now, lexiconResolver, writes, req, res, proc>>
    ELSE Handled(r, Serve(store, now, lexiconResolver, r))

\* Lines 563-572: the cid, the update statement and the answer.
UpdateWrite ==
  \E p \in pending :
    LET uri == Get(p.req.body, "uri")
        record == MergeUpdate(JSONparse(p.existing), ObjOmit(p.req.body, "uri"), p.t)
        cid == createCid(record)
    IN  /\ Serving(proc)
        /\ pending' = pending \ {p}
        /\ req' = p.req
        /\ IF p.req.fault = "write"
           THEN /\ res' = CatchMutating(PlainError(FaultMessage(p.req.fault)))
                /\ UNCHANGED <<store, writes>>
           ELSE /\ writes < MaxWrites
                /\ writes' = writes + 1
                /\ store' = UpdateWhereUri(store, uri, CidToString(cid),
                                           JSONstringify(record), ToISOString(now))
                /\ res' = Json(<<"ref", uri[2], CidToString(cid)>>)
        /\ UNCHANGED <<now, lexiconResolver, proc>>

RaceNext == Tick \/ OrbitGet \/ UpdateSelect \/ UpdateWrite

RaceSpec == RaceInit /\ [][RaceNext]_vars

(***************************************************************************)
(* Startup: the constructor runs loadLexicons over the files it finds,     *)
(* start() creates and starts the PDS, and only then the routes open.      *)
(* A file either fails JSON.parse or is a lexicon document with an id;     *)
(* the documents of one directory tree carry distinct ids.                 *)
(***************************************************************************)
LexiconIds == {"org.chaoticharmonylabs.orbit.record", "org.chaoticharmonylabs.feed.record"}

MalformedFile == [parses |-> FALSE, id |-> ""]

LexiconFile(id) == [parses |-> TRUE, id |-> id]

LexiconFiles == {MalformedFile} \cup {LexiconFile(id) : id \in LexiconIds}

\* The directory listings: at most MaxFiles files, no id in two of them.
FileLists ==
  {fl \in UNION {[1..n -> LexiconFiles] : n \in 0..MaxFiles} :
     \A i, j \in 1..Len(fl) : (i # j /\ fl[i].parses /\ fl[j].parses) => fl[i].id # fl[j].id}

\* Variant: one try around the whole loop, a bad file discards the load.
LoadOneMutStopsAtBadFile(lexicons, f) ==
  IF f.parses THEN Append(lexicons, f.id) ELSE <<>>

\* One turn of the loop: JSON.parse, push; a throw is logged and skipped.
LoadOne(lexicons, f) ==
  IF f.parses THEN Append(lexicons, f.id) ELSE lexicons

\* if (lexicons.length) this.lexiconResolver = new Lexicons(lexicons)
NewResolver(lexicons) == IF Len(lexicons) > 0 THEN "loaded" ELSE "null"

BootInit ==
  /\ store = <<>>
  /\ now = 1
  /\ lexiconResolver = "null"
  /\ writes = 0
  /\ req = Request("none", NoHeaders, EmptyObj, "none", TRUE)
  /\ res = [status |-> 0, thrown |-> "none", body |-> <<"none">>]
  /\ pending = {}
  /\ proc \in {Process("constructing", fl, 1, <<>>) : fl \in FileLists}

LoadFile ==
  /\ proc.phase = "constructing"
  /\ proc.next <= Len(proc.files)
  /\ proc' = [proc EXCEPT !.next = @ + 1,
                          !.lexicons = LoadOne(@, proc.files[proc.next])]
  /\ UNCHANGED <<store, now, lexiconResolver, writes, req, res, pending>>

FinishLoad ==
  /\ proc.phase = "constructing"
  /\ proc.next > Len(proc.files)
  /\ lexiconResolver' = NewResolver(proc.lexicons)
  /\ proc' = [proc EXCEPT !.phase = "constructed"]
  /\ UNCHANGED <<store, now, writes, req, res, pending>>

\* this.pds = await PDS.create(config, secrets); await this.pds.start()
StartPds ==
  /\ proc.phase = "constructed"
  /\ proc' = [proc EXCEPT !.phase = "started"]
  /\ UNCHANGED <<store, now, lexiconResolver, writes, req, res, pending>>

\* server.start().catch(err => { console.error(err); process.exit(1) })
StartFails ==
  /\ proc.phase = "constructed"
  /\ proc' = [proc EXCEPT !.phase = "exited", !.exit = "1"]
  /\ UNCHANGED <<store, now, lexiconResolver, writes, req, res, pending>>

\* this.launchCustomServer(); this.setupGracefulShutdown()
Listen ==
  /\ proc.phase = "started"
  /\ proc' = Listening
  /\ UNCHANGED <<store, now, lexiconResolver, writes, req, res, pending>>

BootNext == LoadFile \/ FinishLoad \/ StartPds \/ StartFails \/ Listen \/ Next

BootSpec == BootInit /\ [][BootNext]_vars

(***************************************************************************)
(* Shutdown: each SIGINT or SIGTERM calls shutdown(sig), which calls       *)
(* pds.destroy() and exits once the call it awaits has completed.          *)
(***************************************************************************)
Signal ==
  /\ Serving(proc)
  /\ proc.destroys < MaxSignals
  /\ proc' = [proc EXCEPT !.stopping = @ + 1, !.destroys = @ + 1]
  /\ UNCHANGED <<store, now, lexiconResolver, writes, req, res, pending>>

DestroyCompletes ==
  /\ proc.exit = "running"
  /\ proc.stopping > 0
  /\ proc' = [proc EXCEPT !.stopping = @ - 1, !.phase = "exited", !.exit = "0"]
  /\ UNCHANGED <<store, now, lexiconResolver, writes, req, res, pending>>

ShutdownNext == Signal \/ DestroyCompletes \/ Next

ShutdownSpec == Init /\ [][ShutdownNext]_vars

(***************************************************************************)
(* requireAdmin on its own: the guard called with every small header set,  *)
(* and called again with one header name spelled in another letter case.   *)
(***************************************************************************)
\* The spellings a header name is sent in, by its lower-case form.
HeaderSpellings ==
  ("x-orbits-admin" :> {"x-orbits-admin", "X-Orbits-Admin", "X-ORBITS-ADMIN"})
  @@ ("x-admin-secret" :> {"x-admin-secret"})
  @@ ("admin" :> {"admin", "Admin"})
  @@ ("admin-password" :> {"admin-password"})
  @@ ("user-agent" :> {"user-agent"})

HeaderNames == UNION {HeaderSpellings[n] : n \in DOMAIN HeaderSpellings}

Canonical(k) == CHOOSE n \in DOMAIN HeaderSpellings : k \in HeaderSpellings[n]

\* The secret, the secret in another letter case, and the empty value.
HeaderValues == {Str(ADMIN_PASSWORD), Str("Admin123"), Str("")}

\* req.headers as HTTP delivers them: no name twice, whatever its case.
HeaderSets ==
  {h \in UNION {[1..n -> HeaderNames \X HeaderValues] : n \in 0..MaxHeaders} :
     \A i \in 1..Len(h) : \A j \in 1..Len(h) :
       i # j => Canonical(h[i][1]) # Canonical(h[j][1])}

\* What a call of requireAdmin leaves: a return, or the error it throws.
RequireAdminOutcome(headers) ==
  IF requireAdmin(headers, ADMIN_PASSWORD)
  THEN [status |-> 0, thrown |-> "none", body |-> <<"returned">>]
  ELSE [status |-> 0, thrown |-> AuthMissing.error, body |-> <<"error", AuthMissing.message>>]

AuthInit ==
  /\ store = <<>>
  /\ now = 1
  /\ lexiconResolver = "null"
  /\ writes = 0
  /\ req \in {Request("requireAdmin", h, EmptyObj, "none", TRUE) : h \in HeaderSets}
  /\ res = [status |-> 0, thrown |-> "none", body |-> <<"none">>]
  /\ pending = {}
  /\ proc = Listening

CallRequireAdmin ==
  /\ req.op = "requireAdmin"
  /\ res.body = <<"none">>
  /\ res' = RequireAdminOutcome(req.headers)
  /\ UNCHANGED <<store, now, lexiconResolver, writes, req, pending, proc>>

\* The same headers again, one name in another spelling.
CallRespelled ==
  /\ req.op = "requireAdmin"
  /\ res.body # <<"none">>
  /\ \E i \in 1..Len(req.headers) :
       \E k \in HeaderSpellings[Canonical(req.headers[i][1])] \ {req.headers[i][1]} :
         LET h == [req.headers EXCEPT ![i] = <<k, @[2]>>]
         IN  /\ req' = [req EXCEPT !.headers = h]
             /\ res' = RequireAdminOutcome(h)
  /\ UNCHANGED <<store, now, lexiconResolver, writes, pending, proc>>

AuthNext == CallRequireAdmin \/ CallRespelled

AuthSpec == AuthInit /\ [][AuthNext]_vars

(***************************************************************************)
(* The limit of orbit.list on its own: the first statement of the handler  *)
(* applied to every small value of req.body.limit.                         *)
(***************************************************************************)
\* req.body.limit: absent, a string, or an integer.
SuppliedLimits ==
  {Undef, Str("abc"), Str(""), Str("1"), Str("2")}
  \cup {Num(n) : n \in (0 - MaxLimit)..MaxLimit}

LimitBodies == {IF v = Undef THEN EmptyObj ELSE ListBody(v) : v \in SuppliedLimits}

LimitInit ==
  /\ store = <<>>
  /\ now = 1
  /\ lexiconResolver = "null"
  /\ writes = 0
  /\ req \in {Request("limit", NoHeaders, b, "none", TRUE) : b \in LimitBodies}
  /\ res = [status |-> 0, thrown |-> "none", body |-> <<"none">>]
  /\ pending = {}
  /\ proc = Listening

\* const limit = Number(req.body.limit) || 50: the value .limit() is given.
ReadLimit ==
  /\ req.op = "limit"
  /\ res.body = <<"none">>
  /\ res' = [status |-> 0, thrown |-> "none", body |-> <<"limit", ListLimit(req.body)>>]
  /\ UNCHANGED <<store, now, lexiconResolver, writes, req, pending, proc>>

LimitNext == ReadLimit

LimitSpec == LimitInit /\ [][LimitNext]_vars

(***************************************************************************)
(* Properties.  A step in which a handler ran leaves the clock alone and   *)
(* records the request in req and the response in res; store is the table  *)
(* before the request and store' the table after it.                       *)
(***************************************************************************)
HandlerStep(op) == now' = now /\ req'.op = op

\* The positions of the rows stored under a uri, and the first such row.
Positions(rows, uri) == {i \in 1..Len(rows) : rows[i].uri = uri}

Stored(rows, uri) == Positions(rows, uri) # {}

RowAt(rows, uri) ==
  rows[CHOOSE i \in Positions(rows, uri) : \A j \in Positions(rows, uri) : i <= j]

\* C1: a create or update whose headers carry no valid admin credential
\* fails with AuthMissing (403, 'Authentication Required') and leaves the
\* table as it was, whatever its body: also when the name or the uri is
\* missing or the uri names no record.
C1_AuthBeforeEverything ==
  [][ ((HandlerStep("create") \/ HandlerStep("update"))
        /\ req'.headers \in UnauthorizedHeaders)
      => /\ store' = store
         /\ res'.thrown = "AuthMissing"
         /\ res'.status = 403
         /\ res'.body = <<"error", "Authentication Required">> ]_vars

C1_Witness ==
  /\ req.op = "update"
  /\ req.headers = BadHeaders
  /\ Get(req.body, "uri") = Str(MissingUri)
  /\ store # <<>>
  /\ res.thrown = "AuthMissing"

\* C2: after an authorized create with a non-empty name has succeeded, get
\* on the returned uri answers 200 with that uri, a value whose name is the
\* input's, whose description and feeds are the input's or '' and {} when
\* the input gives none, and a cid that is both the one create returned and
\* the fingerprint recomputed over the returned value; and that answer stays
\* the same through every later step that is not an update of that uri.
C2_CreateThenGet ==
  [][ /\ (HandlerStep("create") /\ res'.status = 200)
         => LET uri == res'.body[2]
                got == GetHandler(store', GetBody(uri), "none").res
                value == got.body[2][3]
            IN  /\ got.status = 200
                /\ got.body[2][1] = uri
                /\ Get(value, "name") = Get(req'.body, "name")
                /\ Get(value, "description")
                     = (IF HasKey(req'.body, "description")
                        THEN Get(req'.body, "description") ELSE Str(""))
                /\ Get(value, "feeds")
                     = (IF HasKey(req'.body, "feeds")
                        THEN Get(req'.body, "feeds") ELSE EmptyObj)
                /\ got.body[2][2] = res'.body[3]
                /\ got.body[2][2] = CidToString(createCid(value))
      /\ \A u \in MintedUris :
           (Stored(store, u)
              /\ ~(HandlerStep("update") /\ Get(req'.body, "uri") = Str(u)))
           => GetHandler(store', GetBody(u), "none").res
                = GetHandler(store, GetBody(u), "none").res
    ]_vars

\* A get of a record no update has touched, created with every field given.
C2_Witness ==
  /\ req.op = "get"
  /\ res.status = 200
  /\ Len(store) = 2
  /\ LET value == res.body[2][3]
     IN  /\ Get(value, "name") = Str("B")
         /\ Get(value, "description") = Str("d")
         /\ Get(value, "feeds") = PhotoFeeds
         /\ ~HasKey(value, "updatedAt")
         /\ res.body[2][2] = CidToString(createCid(value))

\* C3: an authorized create whose name is missing or empty fails with
\* InvalidRequest (400) and inserts nothing, whether or not the table could
\* have been written and whether or not the schema would have accepted it.
C3_UnnamedCreateRejected ==
  [][ (HandlerStep("create") /\ req'.headers = GoodHeaders
        /\ req'.body \in UnnamedInputs)
      => /\ store' = store
         /\ res'.thrown = "InvalidRequest"
         /\ res'.status = 400 ]_vars

C3_Witness ==
  /\ req.op = "create"
  /\ req.headers = GoodHeaders
  /\ Get(req.body, "name") = Str("")
  /\ res.thrown = "InvalidRequest"
  /\ res.status = 400

\* C4: an authorized update whose uri names no stored record answers 404
\* not found and leaves the table as it was, provided the lookup itself did
\* not fail.
C4_UpdateOfMissingUri ==
  [][ (HandlerStep("update") /\ req'.headers = GoodHeaders
        /\ Truthy(Get(req'.body, "uri"))
        /\ ~Stored(store, Get(req'.body, "uri")[2])
        /\ req'.fault # "read")
      => /\ res' = NotFound
         /\ store' = store ]_vars

C4_Witness ==
  /\ req.op = "update"
  /\ req.headers = GoodHeaders
  /\ Get(req.body, "uri") = Str(MissingUri)
  /\ store # <<>>
  /\ res.status = 404

\* C5: a successful update is a shallow merge.  Every field of the stored
\* record or of the supplied fields, other than updatedAt, afterwards holds
\* the supplied value when the request supplies it (an object such as feeds
\* is replaced whole, not merged) and its prior value otherwise; updatedAt
\* is the time of the update; the record has no other field.
C5_ShallowMerge ==
  [][ (HandlerStep("update") /\ res'.status = 200)
      => LET uri == Get(req'.body, "uri")[2]
             updates == ObjOmit(req'.body, "uri")
             before == JSONparse(RowAt(store, uri).json)
             after == JSONparse(RowAt(store', uri).json)
         IN  /\ \A k \in (Keys(before) \cup Keys(updates)) \ {"updatedAt"} :
                  Get(after, k) = (IF HasKey(updates, k) THEN Get(updates, k)
                                   ELSE Get(before, k))
             /\ Keys(after) = Keys(before) \cup Keys(updates) \cup {"updatedAt"}
             /\ Get(after, "updatedAt") = ToISOString(now) ]_vars

\* An update of feeds and description alone on a record created with a
\* name, photo feeds and a description: the name stays, feeds is replaced.
C5_Witness ==
  /\ req.op = "update"
  /\ res.status = 200
  /\ ~HasKey(req.body, "name")
  /\ Get(req.body, "feeds") = VideoFeeds
  /\ Stored(store, Get(req.body, "uri")[2])
  /\ LET value == JSONparse(RowAt(store, Get(req.body, "uri")[2]).json)
     IN  /\ Get(value, "name") = Str("B")
         /\ Get(value, "feeds") = VideoFeeds
         /\ Get(value, "description") = Str("e")
         /\ HasKey(value, "updatedAt")

\* C6: after a successful update the stored cid is the one the response
\* returns, and it differs from the cid the record had before whenever the
\* stored json differs from the json it had before.
C6_FingerprintFollowsContent ==
  [][ (HandlerStep("update") /\ res'.status = 200)
      => LET uri == Get(req'.body, "uri")[2]
             before == RowAt(store, uri)
             after == RowAt(store', uri)
         IN  /\ res'.body[3] = after.cid
             /\ after.json # before.json => after.cid # before.cid ]_vars

\* An update of the name of a record created as { name: 'A' }: the cid it
\* returns is stored and is no longer the cid create computed.
C6_Witness ==
  /\ req.op = "update"
  /\ res.status = 200
  /\ writes = 2
  /\ Len(store) = 1
  /\ res.body[3] = store[1].cid
  /\ Get(JSONparse(store[1].json), "name") = Str("B")
  /\ Get(JSONparse(store[1].json), "description") = Str("")
  /\ \E t \in 1..MaxClock :
       /\ Get(JSONparse(store[1].json), "createdAt") = ToISOString(t)
       /\ store[1].cid
            # CidToString(createCid(CreateRecord(Obj(<< <<"name", Str("A")>> >>), t)))

\* C7 as stated: whatever number N = 0, 1, 2, ... a list request supplies
\* as limit, the response holds at most N records.
C7_AtMostLimitRecords ==
  (req.op = "list" /\ res.status = 200 /\ Get(req.body, "limit")[1] = "num"
     /\ Get(req.body, "limit")[2] >= 0)
  => Len(res.body[2]) <= Get(req.body, "limit")[2]

\* C7 as amended: when the limit a list request supplies is a positive
\* integer N, the response holds at most N records, all of the orbit
\* collection.
C7_AtMostPositiveLimitRecords ==
  (req.op = "list" /\ res.status = 200 /\ Get(req.body, "limit")[1] = "num"
     /\ Get(req.body, "limit")[2] >= 1)
  => Len(res.body[2]) <= Get(req.body, "limit")[2]

\* A list with limit 1 over a table of two orbit records returns one.
C7_Witness ==
  /\ req.op = "list"
  /\ Get(req.body, "limit") = Num(1)
  /\ Len(store) = 2
  /\ res.status = 200
  /\ Len(res.body[2]) = 1

\* C8: the cid attached to a record depends on the record's serialized
\* content alone.  Two rows of the table with the same json carry the same
\* cid, and a request that leaves a row's json as it was leaves its cid as
\* it was: nothing but the content (no time of computation, no count of
\* earlier requests, no other row) enters the fingerprint.
C8_FingerprintOfContentOnly ==
  [][ /\ \A i \in 1..Len(store') : \A j \in 1..Len(store') :
           store'[i].json = store'[j].json => store'[i].cid = store'[j].cid
      /\ \A i \in 1..Len(store) :
           (i <= Len(store') /\ store'[i].json = store[i].json)
           => store'[i].cid = store[i].cid
      /\ (now' = now /\ req'.op \in {"create", "update"} /\ res'.status = 200)
         => \E i \in 1..Len(store') :
              /\ store'[i].uri = res'.body[2]
              /\ store'[i].cid = res'.body[3]
              /\ store'[i].cid[4] = Sha256(store'[i].json) ]_vars

\* An update answered with the cid stored for the content it wrote; the
\* same request repeated within the millisecond computes the fingerprint of
\* that very content again and arrives at this same state.
C8_Witness ==
  /\ req.op = "update"
  /\ res.status = 200
  /\ writes = 2
  /\ Len(store) = 1
  /\ Get(JSONparse(store[1].json), "updatedAt") = ToISOString(now)
  /\ Get(JSONparse(store[1].json), "tag") = Str("t")
  /\ res.body[3] = store[1].cid

C10_UpdateKeepsUris ==
  [][ HandlerStep("update")
      => /\ Len(store') = Len(store)
         /\ \A i \in 1..Len(store) : store'[i].uri = store[i].uri
         /\ res'.status = 200
            => LET uri == Get(req'.body, "uri")[2]
               IN  /\ res'.body[2] = uri
                   /\ Stored(store, uri)
                   /\ RowAt(store', uri).json
                        = JSONstringify(
                            ObjSet(JsSpread(JSONparse(RowAt(store, uri).json),
                                            ObjOmit(req'.body, "uri")),
                                   "updatedAt", ToISOString(now))) ]_vars

\* An update, a millisecond later, of the one record the table holds.
C10_Witness ==
  /\ req.op = "update"
  /\ res.status = 200
  /\ Len(store) = 1
  /\ res.body[2] = store[1].uri
  /\ store[1].uri = OrbitUri(1)
  /\ Get(JSONparse(store[1].json), "createdAt") = ToISOString(1)
  /\ Get(JSONparse(store[1].json), "updatedAt") = ToISOString(2)

C12_GetReturnsWhatIsStored ==
  [][ (HandlerStep("get") /\ Truthy(Get(req'.body, "uri")) /\ req'.fault = "none")
      => LET uri == Get(req'.body, "uri")[2]
             hits == {i \in 1..Len(store) :
                        store[i].uri = uri /\ store[i].collection = OrbitCollection}
         IN  IF hits = {}
             THEN res'.status = 404 /\ res'.body = <<"error", "not found">>
             ELSE \E i \in hits :
                    /\ res'.status = 200
                    /\ res'.body = <<"orbit", <<store[i].uri, store[i].cid,
                                                JSONparse(store[i].json)>> >> ]_vars

\* A get of a record whose update emptied its name and added a field the
\* record type does not declare: both come back as stored.
C12_Witness ==
  /\ req.op = "get"
  /\ res.status = 200
  /\ Len(store) = 1
  /\ res.body[2][1] = store[1].uri
  /\ res.body[2][2] = store[1].cid
  /\ Get(res.body[2][3], "tag") = Str("t")
  /\ Get(res.body[2][3], "name") = Str("")

\* C13: get and list are public and read-only.  Every get or list request
\* leaves the table as it was, is never refused for want of a credential,
\* and receives the response the same request would receive with no admin
\* header, with the right one or with a wrong one.
C13_ReadsArePublicAndReadOnly ==
  [][ (HandlerStep("get") \/ HandlerStep("list"))
      => /\ store' = store
         /\ res'.thrown # "AuthMissing"
         /\ \A h \in {NoHeaders, GoodHeaders, BadHeaders} :
              Serve(store, now, lexiconResolver, [req' EXCEPT !.headers = h]).res = res'
    ]_vars

\* A get carrying a wrong admin value is answered with the stored record.
C13_Witness ==
  /\ req.op = "get"
  /\ req.headers = BadHeaders
  /\ res.status = 200
  /\ store # <<>>
  /\ res.body[2][1] = store[1].uri

\* The headers of h sent under a spelling of the name n, and the value of
\* the one there is.
SentAs(h, n) ==
  {i \in 1..Len(h) :
     h[i][1] \in (IF n \in DOMAIN HeaderSpellings THEN HeaderSpellings[n] ELSE {n})}

ValueSent(h, n) == h[CHOOSE i \in SentAs(h, n) : TRUE][2]

\* The order in which the claim takes the admin header names.
ClaimedOrder ==
  <<"x-orbits-admin", "x-admin-secret", "x-admin-password",
    "admin", "admin_password", "admin-password">>

\* C14 as stated: requireAdmin returns exactly when the first header that
\* is present, in the fixed order of names, carries the secret verbatim,
\* and throws AuthMissing otherwise.
C14_FirstPresentHeaderDecides ==
  (req.op = "requireAdmin" /\ res.body # <<"none">>)
  => LET h == req.headers
         decides(p) == /\ SentAs(h, ClaimedOrder[p]) # {}
                       /\ \A q \in 1..(p - 1) : SentAs(h, ClaimedOrder[q]) = {}
     IN  /\ res.thrown \in {"none", "AuthMissing"}
         /\ res.thrown = "none"
            <=> \E p \in 1..Len(ClaimedOrder) :
                  decides(p) /\ ValueSent(h, ClaimedOrder[p]) = Str(ADMIN_PASSWORD)

\* C14 as amended: requireAdmin returns exactly when the first header that
\* carries a non-empty value, in the fixed order of names, carries the
\* secret verbatim; it throws AuthMissing when no recognized header carries
\* a non-empty value or when that first value is not the secret (a value
\* in another letter case included), whatever a later header carries.
C14_FirstNonEmptyHeaderDecides ==
  (req.op = "requireAdmin" /\ res.body # <<"none">>)
  => LET h == req.headers
         filled(n) == SentAs(h, n) # {} /\ ValueSent(h, n) # Str("")
         decides(p) == /\ filled(ClaimedOrder[p])
                       /\ \A q \in 1..(p - 1) : ~filled(ClaimedOrder[q])
     IN  /\ res.thrown \in {"none", "AuthMissing"}
         /\ res.thrown = "none"
            <=> \E p \in 1..Len(ClaimedOrder) :
                  decides(p) /\ ValueSent(h, ClaimedOrder[p]) = Str(ADMIN_PASSWORD)

\* x-orbits-admin carries the secret in another letter case and admin the
\* secret itself: refused.
C14_Witness ==
  /\ req.op = "requireAdmin"
  /\ req.headers = << <<"x-orbits-admin", Str("Admin123")>>, <<"admin", Str(ADMIN_PASSWORD)>> >>
  /\ res.thrown = "AuthMissing"

\* C15: the outcome of requireAdmin does not depend on the letter case of
\* header names.  When the guard is called again with the same headers,
\* the same values and one name respelled in another case, it returns if
\* it returned before and throws AuthMissing if it threw before.
C15_HeaderNameCaseIsIgnored ==
  [][ ( /\ req.op = "requireAdmin" /\ res.body # <<"none">>
        /\ req'.headers # req.headers
        /\ Len(req'.headers) = Len(req.headers)
        /\ \A i \in 1..Len(req.headers) :
             /\ req'.headers[i][2] = req.headers[i][2]
             /\ \E n \in DOMAIN HeaderSpellings :
                  {req.headers[i][1], req'.headers[i][1]} \subseteq HeaderSpellings[n] )
      => res' = res ]_vars

\* The secret under X-ORBITS-ADMIN, after an empty Admin header: accepted.
C15_Witness ==
  /\ req.op = "requireAdmin"
  /\ req.headers = << <<"Admin", Str("")>>, <<"X-ORBITS-ADMIN", Str(ADMIN_PASSWORD)>> >>
  /\ res.body = <<"returned">>

\* C16: a record's createdAt is the time of its create and never changes:
\* a successful create stores the current time as createdAt, and no step
\* changes the createdAt of a row the table already holds.
C16_CreatedAtNeverChanges ==
  [][ /\ (HandlerStep("create") /\ res'.status = 200)
         => Get(JSONparse(store'[Len(store')].json), "createdAt") = ToISOString(now)
      /\ \A i \in 1..Len(store) :
           i <= Len(store')
           => Get(JSONparse(store'[i].json), "createdAt")
                = Get(JSONparse(store[i].json), "createdAt") ]_vars

\* C17: in every reachable state every stored orbit record has a name that
\* is a non-empty string.
C17_StoredNamesAreNonEmpty ==
  \A i \in 1..Len(store) :
    store[i].collection = OrbitCollection
    => LET name == Get(JSONparse(store[i].json), "name")
       IN  name[1] = "str" /\ name # Str("")

\* C18: a stored record has an updatedAt exactly when an update of it has
\* succeeded.  The row a successful create adds has no updatedAt, whatever
\* the input carried; a successful update leaves the time of the update as
\* the updatedAt of the row it names, whatever updatedAt the request
\* carried; and no other step adds, removes or changes a row's updatedAt.
C18_UpdatedAtMarksUpdates ==
  [][ /\ (HandlerStep("create") /\ res'.status = 200)
         => ~HasKey(JSONparse(store'[Len(store')].json), "updatedAt")
      /\ (HandlerStep("update") /\ res'.status = 200)
         => Get(JSONparse(RowAt(store', Get(req'.body, "uri")[2]).json), "updatedAt")
              = ToISOString(now)
      /\ \A i \in 1..Len(store) :
           ( /\ i <= Len(store')
             /\ ~( /\ HandlerStep("update") /\ res'.status = 200
                   /\ Get(req'.body, "uri") = Str(store[i].uri) ) )
           => Get(JSONparse(store'[i].json), "updatedAt")
                = Get(JSONparse(store[i].json), "updatedAt") ]_vars

\* An update that carried updatedAt: 'X' has left the time of the update.
C18_Witness ==
  /\ req.op = "update"
  /\ res.status = 200
  /\ Get(req.body, "updatedAt") = Str("X")
  /\ Len(store) = 1
  /\ Get(JSONparse(store[1].json), "updatedAt") = ToISOString(now)
  /\ Get(JSONparse(store[1].json), "tag") = Str("t")
  /\ now = 2

\* C19: an operation fails as a whole or succeeds as a whole.  A request
\* answered with an error leaves the table as it was.  A mutating request
\* without a valid credential is answered 403, and a request lacking the
\* name or the uri it needs is answered 400, also while the collaborator is
\* failing, so neither reaches it.  A create answered with success has
\* added one complete row and changed no other; an update answered with
\* success has set cid, json and indexedAt of the row it names together
\* and changed no other row; a get or list changes nothing.
C19_NoPartialSuccess ==
  [][ (now' = now /\ req'.op \in {"list", "get", "create", "update"})
      => /\ res'.status # 200 => store' = store
         /\ (req'.op \in {"create", "update"} /\ req'.headers \in UnauthorizedHeaders)
            => res'.status = 403
         /\ ( \/ (req'.op = "create" /\ req'.headers = GoodHeaders
                    /\ req'.body \in UnnamedInputs)
              \/ (req'.op = "update" /\ req'.headers = GoodHeaders
                    /\ ~HasKey(req'.body, "uri"))
              \/ (req'.op = "get" /\ ~HasKey(req'.body, "uri")) )
            => res'.status = 400
         /\ (req'.op \in {"list", "get"} /\ res'.status = 200) => store' = store
         /\ (req'.op = "create" /\ res'.status = 200)
            => /\ Len(store') = Len(store) + 1
               /\ \A i \in 1..Len(store) : store'[i] = store[i]
               /\ LET row == store'[Len(store')]
                  IN  /\ row.uri = res'.body[2]
                      /\ row.cid = res'.body[3]
                      /\ row.cid[4] = Sha256(row.json)
                      /\ row.uri = AtUriMake(row.did, row.collection, row.rkey)
                      /\ row.indexedAt = ToISOString(now)
         /\ (req'.op = "update" /\ res'.status = 200)
            => /\ Len(store') = Len(store)
               /\ \A i \in 1..Len(store) :
                    IF Str(store[i].uri) = Get(req'.body, "uri")
                    THEN /\ store'[i].cid = res'.body[3]
                         /\ store'[i].cid[4] = Sha256(store'[i].json)
                         /\ Get(JSONparse(store'[i].json), "updatedAt") = ToISOString(now)
                         /\ store'[i].indexedAt = ToISOString(now)
                    ELSE store'[i] = store[i] ]_vars

\* A create the schema refused, over a table that already holds a record:
\* answered 500, the table still holding that one record.
C19_Witness ==
  /\ req.op = "create"
  /\ req.headers = GoodHeaders
  /\ ~req.valid
  /\ res.status = 500
  /\ res.body = <<"error", ValidationErrorMessage>>
  /\ Len(store) = 1
  /\ store[1].uri # OrbitUri(now)

\* C20: create never drops a write silently.  When a create is answered
\* with success, the table holds a row under the returned uri with the
\* returned cid whose json is the record built from the input: $type, the
\* name, the description or '', the time of the create, the feeds or {}.
\* When the collaborator fails, the create is not answered with success:
\* one that passed the credential, name and schema checks is answered 500,
\* and the table stays as it was.
C20_CreateNeverDropsAWrite ==
  [][ HandlerStep("create")
      => /\ res'.status = 200
            => \E i \in 1..Len(store') :
                 /\ store'[i].uri = res'.body[2]
                 /\ store'[i].cid = res'.body[3]
                 /\ JSONparse(store'[i].json)
                      = Obj(<< <<"$type", Str(OrbitCollection)>>,
                               <<"name", Get(req'.body, "name")>>,
                               <<"description",
                                 IF Truthy(Get(req'.body, "description"))
                                 THEN Get(req'.body, "description") ELSE Str("")>>,
                               <<"createdAt", ToISOString(now)>>,
                               <<"feeds",
                                 IF Truthy(Get(req'.body, "feeds"))
                                 THEN Get(req'.body, "feeds") ELSE EmptyObj>> >>)
         /\ req'.fault # "none"
            => /\ res'.status # 200
               /\ store' = store
               /\ ( /\ req'.headers = GoodHeaders
                    /\ req'.body \in NamedInputs
                    /\ (lexiconResolver = "null" \/ req'.valid) )
                  => res'.status = 500 ]_vars

\* The first create, of the input with every field given, has succeeded
\* and its row is the table's only one.
C20_Witness ==
  /\ req.op = "create"
  /\ res.status = 200
  /\ Get(req.body, "feeds") = PhotoFeeds
  /\ Len(store) = 1
  /\ store[1].uri = res.body[2]
  /\ store[1].cid = res.body[3]
  /\ Get(JSONparse(store[1].json), "feeds") = PhotoFeeds
  /\ Get(JSONparse(store[1].json), "description") = Str("d")

\* C21: with the orbit schema loaded, an authorized create with a name
\* whose built record the schema refuses fails with InvalidRequest, a 400,
\* and stores nothing.
C21_SchemaViolationIsInvalidRequest ==
  [][ ( /\ HandlerStep("create")
        /\ req'.headers = GoodHeaders
        /\ req'.body \in NamedInputs
        /\ lexiconResolver = "loaded"
        /\ ~req'.valid )
      => /\ res'.status = 400
         /\ res'.thrown = "InvalidRequest"
         /\ store' = store ]_vars

\* C23: authorization is re-checked on every mutating call and keeps no
\* state.  Whatever the table holds and whatever requests were accepted
\* before, a create or update is refused with AuthMissing (403) exactly
\* when its own headers carry no valid admin credential.
C23_AuthorizationIsStateless ==
  [][ (HandlerStep("create") \/ HandlerStep("update"))
      => /\ res'.thrown = "AuthMissing" <=> req'.headers \in UnauthorizedHeaders
         /\ res'.thrown = "AuthMissing" => res'.status = 403 /\ store' = store ]_vars

\* After two accepted creates, a create of a named record without any
\* admin header is refused.
C23_Witness ==
  /\ req.op = "create"
  /\ req.headers = NoHeaders
  /\ Get(req.body, "name") = Str("A")
  /\ Len(store) = 2
  /\ writes = 2
  /\ res.thrown = "AuthMissing"
  /\ res.status = 403

\* The uris the table holds rows under.
Uris(rows) == {rows[i].uri : i \in 1..Len(rows)}

\* C24: a record goes from nonexistent to created to updated and never
\* back.  Every uri stored stays stored across every step; a uri becomes
\* stored only by a successful create, whose row has no updatedAt yet; a
\* successful update names a uri already stored and leaves it with an
\* updatedAt; and a row that has an updatedAt keeps having one.
C24_RecordsAreNeverRemoved ==
  [][ /\ Uris(store) \subseteq Uris(store')
      /\ Uris(store') # Uris(store)
         => /\ HandlerStep("create") /\ res'.status = 200
            /\ Uris(store') = Uris(store) \cup {res'.body[2]}
            /\ ~HasKey(JSONparse(RowAt(store', res'.body[2]).json), "updatedAt")
      /\ (HandlerStep("update") /\ res'.status = 200)
         => /\ Get(req'.body, "uri")[2] \in Uris(store)
            /\ HasKey(JSONparse(RowAt(store', Get(req'.body, "uri")[2]).json), "updatedAt")
      /\ \A u \in Uris(store) :
           HasKey(JSONparse(RowAt(store, u).json), "updatedAt")
           => HasKey(JSONparse(RowAt(store', u).json), "updatedAt") ]_vars

\* A record created at time 1 and updated since is still there at time 2:
\* a get of its uri finds it, updatedAt and all.
C24_Witness ==
  /\ req.op = "get"
  /\ res.status = 200
  /\ now = 2
  /\ Uris(store) = {OrbitUri(1)}
  /\ Get(req.body, "uri") = Str(OrbitUri(1))
  /\ HasKey(res.body[2][3], "updatedAt")
  /\ Get(res.body[2][3], "createdAt") = ToISOString(1)

\* C22: list uses the supplied limit when it is a positive integer (a
\* numeral string counting as its number) and 50 in every other case:
\* absent, not a number, zero or negative.
C22_LimitDefaultsWhenInvalid ==
  (req.op = "limit" /\ res.body[1] = "limit")
  => LET v == Get(req.body, "limit")
         supplied == CASE v[1] = "num" -> v[2]
                       [] v = Str("1") -> 1
                       [] v = Str("2") -> 2
                       [] OTHER -> 0
     IN  res.body[2] = IF supplied >= 1 THEN supplied ELSE 50

\* C27: a request that fails because the collaborator failed is answered
\* with a server error that does not depend on the collaborator's error:
\* the same request meeting a failure with another message would have
\* received the same response.
C27_ServerErrorsAreGeneric ==
  [][ ( /\ now' = now /\ req'.op \in {"list", "get", "create", "update"}
        /\ req'.fault # "none"
        /\ res'.status = 500
        /\ res'.body[2] \in {DbErrorMessage, LockedErrorMessage} )
      => \A f \in {"read", "write", "locked"} :
           LET other == Serve(store, now, lexiconResolver, [req' EXCEPT !.fault = f]).res
           IN  (other.status = 500 /\ other.body[2] \in {DbErrorMessage, LockedErrorMessage})
               => other = res' ]_vars

\* C29: update only modifies records of the orbit collection.  An
\* authorized update whose uri names a stored record of another collection
\* leaves the table as it was and answers not found, as get does for that
\* uri.
C29_UpdateTouchesOrbitRecordsOnly ==
  [][ ( /\ HandlerStep("update")
        /\ req'.headers = GoodHeaders
        /\ req'.fault = "none"
        /\ \E i \in 1..Len(store) :
             /\ Str(store[i].uri) = Get(req'.body, "uri")
             /\ store[i].collection # OrbitCollection )
      => /\ store' = store
         /\ res'.status = 404
         /\ res'.body = <<"error", "not found">> ]_vars

\* C28: no update is lost.  When an update that was in flight commits with
\* 200, every field the record holds at that moment and the update did not
\* itself supply (updatedAt aside) keeps its value, whatever other updates
\* were written while it was in flight.
C28_NoUpdateIsLost ==
  [][\A p \in pending \ pending' :
       (res'.status = 200) =>
         (LET uri == Get(p.req.body, "uri")[2]
              updates == ObjOmit(p.req.body, "uri")
              current == JSONparse(RowAt(store, uri).json)
              after == JSONparse(RowAt(store', uri).json)
          IN  \A k \in Keys(current) \ (Keys(updates) \cup {"updatedAt"}) :
                Get(after, k) = Get(current, k))]_vars

\* The documents among the files of a listing, in the order they are read.
WellFormedIds(files) ==
  LET F[i \in 0..Len(files)] ==
        IF i = 0 THEN <<>>
        ELSE IF files[i].parses THEN Append(F[i - 1], files[i].id) ELSE F[i - 1]
  IN  F[Len(files)]

\* C25: the loader skips a file it cannot parse and keeps going.  While it
\* runs and once it has returned the process is alive; once it has returned,
\* the documents the registry was built from are exactly the well-formed
\* files, in the order read, and the registry exists whenever there is one.
C25_LoaderSkipsMalformedFiles ==
  /\ proc.phase \in {"constructing", "constructed"} => proc.exit = "running"
  /\ proc.phase = "constructed" =>
       /\ proc.lexicons = WellFormedIds(proc.files)
       /\ (WellFormedIds(proc.files) # <<>>) => lexiconResolver = "loaded"

\* The loader has returned from a listing whose first file is malformed and
\* whose second is a lexicon document.
C25_Witness ==
  /\ proc.phase = "constructed"
  /\ proc.files = <<MalformedFile, LexiconFile("org.chaoticharmonylabs.orbit.record")>>
  /\ proc.lexicons = <<"org.chaoticharmonylabs.orbit.record">>
  /\ lexiconResolver = "loaded"

\* C26: the registry is built once, at startup, before any handler runs, and
\* never changes afterwards: it changes only in the step in which the loader
\* returns, a first request is handled only when the routes are open, and no
\* step taken after a request was handled or after the constructor returned
\* changes it.
C26_RegistryFixedBeforeRequests ==
  [][ /\ (lexiconResolver' # lexiconResolver) =>
           (proc.phase = "constructing" /\ proc'.phase = "constructed")
      /\ (req'.op # "none" /\ (req' # req \/ res' # res \/ store' # store)) =>
           (proc.phase = "listening" /\ lexiconResolver' = lexiconResolver)
      /\ (req.op # "none" \/ proc.phase # "constructing") =>
           lexiconResolver' = lexiconResolver ]_vars

\* After a startup that loaded a lexicon, a create was validated against the
\* registry and refused.
C26_Witness ==
  /\ proc = Listening
  /\ lexiconResolver = "loaded"
  /\ req.op = "create"
  /\ ~req.valid
  /\ res.status = 500
  /\ store = <<>>

\* C30: the process exits with code 0 only after a pds.destroy() has
\* completed, and pds.destroy() is invoked at most once whatever signals
\* arrive.
C30_DestroyOnceThenExit ==
  /\ proc.exit = "0" => proc.destroys - proc.stopping >= 1
  /\ proc.destroys <= 1

====
